---- MODULE Spec2Model ----
(***************************************************************************)
(* A model of the KEGG / Human Protein Atlas scraping pipeline:            *)
(*   - run_scrape (scripts/scrape_info.py): the cache load, the worker     *)
(*     pool of process_kegg_and_hpa_data tasks and the final update_data;  *)
(*   - process_files / get_kegg_id_multiple (scripts/kegg_id_fetch.py):    *)
(*     the per-row id resolution with its interrupt handler;               *)
(*   - fetch_kegg_id / fetch_uniprot_kegg_id: the two lookup protocols;    *)
(*   - parse_kegg_data / parse_gene_data: the flat-record parsers.         *)
(* Python dicts keep insertion order, so a dict is a sequence of           *)
(* [k |-> key, v |-> value] pairs with distinct keys.  Python strings that *)
(* the code splits or searches are sequences of one-character strings.     *)
(***************************************************************************)
EXTENDS Integers, Sequences, FiniteSets, TLC

VARIABLES
    \* ---- run_scrape ----
    scrape_json,      \* the persisted cache file when run_scrape starts
    xlsx,             \* per input file: the KEGG ids get_cell_type_and_ids returns
    hsa_entries,      \* the value get_json returned
    combined_data,    \* DataProcessor.combined_data
    futures,          \* the futures list, in submission order
    task_pc,          \* per future: where its worker task stands
    stages,           \* per future: what the fetch stages of its task obtained
    main_pc,          \* where the orchestrating thread stands
    file_idx,         \* index of the excel file the for loop is at
    to_submit,        \* filtered_hsa_keys not yet submitted
    \* ---- one call of a lookup protocol or of a flat-record parser ----
    call,             \* the function called, its arguments and the remote answer
    ret,              \* what the call returned, or that it raised
    \* ---- process_files ----
    data_files,       \* per data file: its Gene_Symbol cells, and whether its output exists
    keep_running,     \* KeggIdFetcher.keep_running
    pf_pc,            \* where the main thread stands in process_files
    pf_file,          \* index of the file the for loop is at
    pf_row,           \* index of the row apply is at
    symbols_left,     \* the symbols of the row not yet submitted
    row_tasks,        \* the futures of the row: symbol, state, result
    lists,            \* the four result lists of get_kegg_id_multiple
    kegg_id_df,       \* the rows get_kegg_id_multiple has returned for this file
    output_files      \* the *_extended.xlsx files: exists, rows written

scrapeVars == <<scrape_json, xlsx, hsa_entries, combined_data, futures,
                task_pc, stages, main_pc, file_idx, to_submit>>

resolveVars == <<call, ret>>

fetchVars == <<data_files, keep_running, pf_pc, pf_file, pf_row, symbols_left,
               row_tasks, lists, kegg_id_df, output_files>>

vars == <<scrapeVars, resolveVars, fetchVars>>

notScrape == <<resolveVars, fetchVars>>

notResolve == <<scrapeVars, fetchVars>>

notFetch == <<scrapeVars, resolveVars>>

----------------------------------------------------------------------------
(* Bounds and inputs *)

MaxIds == 2

IdName == <<"hsa:1", "hsa:2", "hsa:3", "hsa:4", "hsa:5", "hsa:6">>

Ids == {IdName[i] : i \in 1..MaxIds}

\* the *extended.xlsx files of the input directory, in glob order (file stems)
FileOrder == <<"Significant_BM_a_b_extended", "Significant_LIVER_a_b_extended">>

Files == {FileOrder[i] : i \in DOMAIN FileOrder}

max_workers == 5

----------------------------------------------------------------------------
(* Python dict operations on insertion-ordered dicts *)

Keys(d) == {d[i].k : i \in DOMAIN d}

HasKey(d, key) == \E i \in DOMAIN d : d[i].k = key

IndexOf(d, key) == CHOOSE i \in DOMAIN d : d[i].k = key

Get(d, key) == d[IndexOf(d, key)].v

\* d[key] = value
SetItem(d, key, value) ==
    IF HasKey(d, key)
    THEN [d EXCEPT ![IndexOf(d, key)] = [k |-> key, v |-> value]]
    ELSE Append(d, [k |-> key, v |-> value])

RECURSIVE DictUpdate(_, _)
\* d.update(other)
DictUpdate(d, other) ==
    IF other = <<>> THEN d
    ELSE DictUpdate(SetItem(d, Head(other).k, Head(other).v), Tail(other))

----------------------------------------------------------------------------
(* Python str operations, on strings as sequences of one-character strings *)

Whitespace == {" ", "\t", "\n"}

RECURSIVE LStrip(_)
LStrip(s) == IF s # <<>> /\ Head(s) \in Whitespace THEN LStrip(Tail(s)) ELSE s

RECURSIVE RStrip(_)
RStrip(s) ==
    IF s # <<>> /\ s[Len(s)] \in Whitespace THEN RStrip(SubSeq(s, 1, Len(s) - 1)) ELSE s

\* s.strip()
Strip(s) == RStrip(LStrip(s))

RECURSIVE SplitFrom(_, _, _)
SplitFrom(s, sep, cur) ==
    IF s = <<>> THEN <<cur>>
    ELSE IF Head(s) = sep THEN <<cur>> \o SplitFrom(Tail(s), sep, <<>>)
         ELSE SplitFrom(Tail(s), sep, Append(cur, Head(s)))

\* s.split(sep), sep one character: as many parts as separators plus one
Split(s, sep) == SplitFrom(s, sep, <<>>)

\* s.startswith(prefix)
StartsWith(s, prefix) ==
    Len(s) >= Len(prefix) /\ SubSeq(s, 1, Len(prefix)) = prefix

\* sub in s
Contains(s, sub) ==
    \E i \in 0..(Len(s) - Len(sub)) : SubSeq(s, i + 1, i + Len(sub)) = sub

RECURSIVE Join(_, _)
\* sep.join(parts), sep a string
Join(parts, sep) ==
    IF parts = <<>> THEN <<>>
    ELSE IF Len(parts) = 1 THEN parts[1]
         ELSE parts[1] \o sep \o Join(Tail(parts), sep)

----------------------------------------------------------------------------
(* The two lookup protocols of KeggIdFetcher *)

NoHit == <<"N", "o", " ", "h", "i", "t">>

NoKeggIdFound == <<"N", "o", " ", "K", "E", "G", "G", " ", "I", "D", " ", "f", "o", "u", "n", "d">>

\* a call that returned value, and a call that raised
Return(value) == [raised |-> FALSE, value |-> value]

Raise == [raised |-> TRUE, value |-> <<>>]

RECURSIVE ScanLinesAnySpecies(_, _, _)
\* the loop without the test of the species prefix
ScanLinesAnySpecies(lines, gene_symbol, species) ==
    IF lines = <<>> THEN Return(NoHit)
    ELSE LET parts == Split(Head(lines), "\t")
         IN  IF Len(parts) # 2 THEN Raise
             ELSE IF Contains(Split(parts[2], ";")[1], gene_symbol)
                  THEN Return(parts[1])
                  ELSE ScanLinesAnySpecies(Tail(lines), gene_symbol, species)

RECURSIVE ScanLines(_, _, _)
\* lines 43-48: the loop over the response lines
ScanLines(lines, gene_symbol, species) ==
    IF lines = <<>> THEN Return(NoHit)
    ELSE LET line == Head(lines)
             parts == Split(line, "\t")
         IN  IF StartsWith(line, species \o <<":">>)
             THEN IF Len(parts) # 2 THEN Raise   \* kegg_id, genes = ... : ValueError
                  ELSE IF Contains(Split(parts[2], ";")[1], gene_symbol)
                       THEN Return(parts[1])
                       ELSE ScanLines(Tail(lines), gene_symbol, species)
             ELSE ScanLines(Tail(lines), gene_symbol, species)

\* fetch_kegg_id: response is what requests.get(url) gives
fetch_kegg_id(gene_symbol, species, response) ==
    IF response.status # "ok" THEN Return(NoHit)     \* HTTPError, RequestException
    ELSE ScanLines(Split(Strip(response.text), "\n"), gene_symbol, species)

\* dict.get(key, default)
GetOr(d, key, default) == IF HasKey(d, key) THEN Get(d, key) ELSE default

RECURSIVE AllEntries(_)
\* the cross-reference entries in the order the two loops of find_kegg_entry visit them
AllEntries(results) ==
    IF results = <<>> THEN <<>>
    ELSE GetOr(Head(results), "uniProtKBCrossReferences", <<>>) \o AllEntries(Tail(results))

\* the loop without the test of the database field
ScanEntriesAnyDatabase(entries) ==
    IF entries = <<>> THEN [raised |-> FALSE, found |-> FALSE, entry |-> <<>>]
    ELSE [raised |-> FALSE, found |-> TRUE, entry |-> Head(entries)]

RECURSIVE ScanEntries(_)
\* lines 30-33: entry['database'] raises KeyError on an entry without the key
ScanEntries(entries) ==
    IF entries = <<>> THEN [raised |-> FALSE, found |-> FALSE, entry |-> <<>>]
    ELSE IF ~HasKey(Head(entries), "database")
         THEN [raised |-> TRUE, found |-> FALSE, entry |-> <<>>]
         ELSE IF Get(Head(entries), "database") = <<"K", "E", "G", "G">>
              THEN [raised |-> FALSE, found |-> TRUE, entry |-> Head(entries)]
              ELSE ScanEntries(Tail(entries))

\* find_kegg_entry(data), data a dict
find_kegg_entry(data) == ScanEntries(AllEntries(GetOr(data, "results", <<>>)))

\* fetch_uniprot_kegg_id: response is what requests.get(search url) gives
fetch_uniprot_kegg_id(gene_symbol, species_code, response) ==
    IF response.status # "ok" THEN Return(NoHit)          \* HTTPError, RequestException
    ELSE IF response.json.type = "invalid" THEN Return(NoHit)  \* requests' JSONDecodeError
    ELSE IF response.json.type # "dict" THEN Raise        \* data.get: AttributeError
    ELSE LET kegg_entry == find_kegg_entry(response.json.members)
         IN  IF kegg_entry.raised THEN Raise
             ELSE IF kegg_entry.found
                  THEN Return(GetOr(kegg_entry.entry, "id", NoKeggIdFound))
                  ELSE Return(NoHit)

----------------------------------------------------------------------------
(* The values stored per id *)

\* what process_kegg_and_hpa_data stores for an id fetched in this run
FetchedEntry(kegg_id) ==
    [kegg_data |-> <<"ENTRY", kegg_id>>, hpa_data |-> "fetched in this run"]

\* what an earlier run stored for an id
CachedEntry(kegg_id) ==
    [kegg_data |-> <<"ENTRY", kegg_id>>, hpa_data |-> "fetched in an earlier run"]

RECURSIVE InnerOf(_, _)
\* the inner dict of a group holding the cached entries of the ids of S, in id order
InnerOf(S, i) ==
    IF i > MaxIds THEN <<>>
    ELSE IF IdName[i] \in S
         THEN <<[k |-> IdName[i], v |-> CachedEntry(IdName[i])]>> \o InnerOf(S, i + 1)
         ELSE InnerOf(S, i + 1)

\* what the cache may hold for one group: no key, or the entries of some ids
\* (a run creates a group only to store an entry in it)
GroupStates ==
    {[present |-> FALSE, ids |-> {}]}
    \cup {[present |-> TRUE, ids |-> S] : S \in (SUBSET Ids) \ {{}}}

RECURSIVE CacheOf(_, _)
\* scrape.json as main wrote it: one key per input group, g[f] the cached ids of f
CacheOf(g, i) ==
    IF i > Len(FileOrder) THEN <<>>
    ELSE IF ~g[FileOrder[i]].present THEN CacheOf(g, i + 1)
         ELSE <<[k |-> FileOrder[i], v |-> InnerOf(g[FileOrder[i]].ids, 1)]>>
              \o CacheOf(g, i + 1)

CacheFiles ==
    {[kind |-> x, members |-> <<>>] : x \in {"absent", "empty", "corrupt", "array"}}
    \cup {[kind |-> "object", members |-> CacheOf(g, 1)] :
            g \in [Files -> GroupStates]}

----------------------------------------------------------------------------
(* run_scrape *)

\* get_json: the dict (or other JSON value) loaded from scrape.json
get_json(file) ==
    CASE file.kind = "absent"  -> [type |-> "dict", members |-> <<>>]
      [] file.kind = "empty"   -> [type |-> "dict", members |-> <<>>]
      [] file.kind = "corrupt" -> [type |-> "dict", members |-> <<>>]
      [] file.kind = "array"   -> [type |-> "list", members |-> <<>>]
      [] file.kind = "object"  -> [type |-> "dict", members |-> file.members]

\* list(hsa_entries.keys())
hsa_entries_keys == Keys(hsa_entries.members)

\* kegg_ids, the list get_cell_type_and_ids returned for the file (line 123)
kegg_ids(f) == xlsx[f]

\* list(set(kegg_ids) - set(hsa_entries_keys))
filtered_hsa_keys(f) == kegg_ids(f) \ hsa_entries_keys

Terminal(pc) == pc \in {"merged", "failed"}

Running(pc) == pc \in {"fetch", "waiting", "check", "init", "write"}

ScrapeIdle ==
    /\ scrape_json = [kind |-> "absent", members |-> <<>>]
    /\ xlsx = [f \in Files |-> {}]
    /\ hsa_entries = [type |-> "dict", members |-> <<>>]
    /\ combined_data = <<>>
    /\ futures = <<>>
    /\ task_pc = <<>>
    /\ stages = <<>>
    /\ main_pc = "idle"
    /\ file_idx = 1
    /\ to_submit = {}

InitScrape ==
    /\ scrape_json \in CacheFiles
    /\ xlsx \in [Files -> SUBSET Ids]
    /\ hsa_entries = [type |-> "dict", members |-> <<>>]
    /\ combined_data = <<>>
    /\ futures = <<>>
    /\ task_pc = <<>>
    /\ stages = <<>>
    /\ main_pc = "get_json"
    /\ file_idx = 1
    /\ to_submit = {}

\* lines 117-119: load the cache and take its keys
LoadCache ==
    /\ main_pc = "get_json"
    /\ hsa_entries' = get_json(scrape_json)
    /\ main_pc' = IF get_json(scrape_json).type = "dict" THEN "for" ELSE "raised"
    /\ UNCHANGED notScrape
    /\ UNCHANGED <<stages, scrape_json, xlsx, combined_data, futures, task_pc, file_idx,
                   to_submit>>

\* lines 122-126: the next excel file of the glob, or the end of the with block
NextFile ==
    /\ main_pc = "for"
    /\ IF file_idx <= Len(FileOrder)
       THEN /\ to_submit' = filtered_hsa_keys(FileOrder[file_idx])
            /\ main_pc' = IF filtered_hsa_keys(FileOrder[file_idx]) = {}
                          THEN "as_completed" ELSE "submit"
       ELSE /\ to_submit' = {}
            /\ main_pc' = "update_data"
    /\ UNCHANGED notScrape
    /\ UNCHANGED <<stages, scrape_json, xlsx, hsa_entries, combined_data, futures,
                   task_pc, file_idx>>

\* lines 127-129: executor.submit, in the iteration order of the set
Submit(kegg_id) ==
    /\ main_pc = "submit"
    /\ kegg_id \in to_submit
    /\ futures' = Append(futures,
                         [kegg_id |-> kegg_id, excel_file_name |-> FileOrder[file_idx]])
    /\ task_pc' = Append(task_pc, "queued")
    /\ stages' = Append(stages, "pending")
    /\ to_submit' = to_submit \ {kegg_id}
    /\ main_pc' = IF to_submit' = {} THEN "as_completed" ELSE "submit"
    /\ UNCHANGED notScrape
    /\ UNCHANGED <<scrape_json, xlsx, hsa_entries, combined_data, file_idx>>

\* lines 130-134: as_completed(futures) ends when every future is done
AsCompleted ==
    /\ main_pc = "as_completed"
    /\ \A t \in DOMAIN futures : Terminal(task_pc[t])
    /\ file_idx' = file_idx + 1
    /\ main_pc' = "for"
    /\ UNCHANGED notScrape
    /\ UNCHANGED <<stages, scrape_json, xlsx, hsa_entries, combined_data, futures,
                   task_pc, to_submit>>

\* DataProcessor.update_data
update_data(data, complete_date) == DictUpdate(data, complete_date)

\* lines 135-137
UpdateData ==
    /\ main_pc = "update_data"
    /\ combined_data' = update_data(combined_data, hsa_entries.members)
    /\ main_pc' = "returned"
    /\ UNCHANGED notScrape
    /\ UNCHANGED <<stages, scrape_json, xlsx, hsa_entries, futures, task_pc, file_idx,
                   to_submit>>

----------------------------------------------------------------------------
(* DataProcessor.process_kegg_and_hpa_data, run by a pool thread *)

\* a pool that starts every queued task at once
StartUnbounded(t) ==
    /\ task_pc[t] = "queued"
    /\ \A u \in 1..(t - 1) : task_pc[u] # "queued"
    /\ task_pc' = [task_pc EXCEPT ![t] = "fetch"]
    /\ UNCHANGED notScrape
    /\ UNCHANGED <<stages, scrape_json, xlsx, hsa_entries, combined_data, futures,
                   main_pc, file_idx, to_submit>>

\* the pool runs at most max_workers tasks, taking them in submission order
Start(t) ==
    /\ task_pc[t] = "queued"
    /\ \A u \in 1..(t - 1) : task_pc[u] # "queued"
    /\ Cardinality({u \in DOMAIN task_pc : Running(task_pc[u])}) < max_workers
    /\ task_pc' = [task_pc EXCEPT ![t] = "fetch"]
    /\ UNCHANGED notScrape
    /\ UNCHANGED <<stages, scrape_json, xlsx, hsa_entries, combined_data, futures,
                   main_pc, file_idx, to_submit>>

\* how the stages of lines 34-52 can end: all of them succeed; fetch_kegg_data
\* returns nothing; no SYMBOL; search_gene_in_hpa finds no path (fetch_hpa_data
\* returns None); the search succeeds and an enrichment sub-page fails
\* (fetch_hpa_data still returns its structured data, with None in it); an
\* exception is raised; a remote call never answers (kegg_get and requests.get
\* are called without a timeout, so the call blocks for good)
Outcomes ==
    {"ok", "no kegg data", "no symbol", "no hpa data", "no immune page",
     "no single cell page", "exception", "no answer"}

\* the outcomes for which `if not hpa_data` lets the task go on to the merge
ReachMerge == {"ok", "no immune page", "no single cell page"}

\* what the task holds after its stages: every stage's data, data with an
\* enrichment sub-page missing, or nothing
StageResult(outcome) ==
    IF outcome = "ok" THEN "complete"
    ELSE IF outcome \in ReachMerge THEN "partial"
         ELSE IF outcome = "no answer" THEN "pending" ELSE "nothing"

\* the stages with no handler at lines 66-68 and 133-134: an exception in the
\* task leaves future.result() and run_scrape
FetchUncaught(t, outcome) ==
    /\ task_pc[t] = "fetch"
    /\ task_pc' = [task_pc EXCEPT ![t] =
                     IF outcome \in ReachMerge THEN "check"
                     ELSE IF outcome = "no answer" THEN "waiting" ELSE "failed"]
    /\ stages' = [stages EXCEPT ![t] = StageResult(outcome)]
    /\ main_pc' = IF outcome = "exception" THEN "raised" ELSE main_pc
    /\ UNCHANGED notScrape
    /\ UNCHANGED <<scrape_json, xlsx, hsa_entries, combined_data, futures,
                   file_idx, to_submit>>

\* lines 33-52, 66-68: the remote fetches
Fetch(t, outcome) ==
    /\ task_pc[t] = "fetch"
    /\ task_pc' = [task_pc EXCEPT ![t] =
                     IF outcome \in ReachMerge THEN "check"
                     ELSE IF outcome = "no answer" THEN "waiting" ELSE "failed"]
    /\ stages' = [stages EXCEPT ![t] = StageResult(outcome)]
    /\ UNCHANGED notScrape
    /\ UNCHANGED <<scrape_json, xlsx, hsa_entries, combined_data, futures,
                   main_pc, file_idx, to_submit>>

\* line 55: if excel_file_name not in self.combined_data
CheckGroup(t) ==
    /\ task_pc[t] = "check"
    /\ task_pc' = [task_pc EXCEPT ![t] =
                     IF HasKey(combined_data, futures[t].excel_file_name)
                     THEN "write" ELSE "init"]
    /\ UNCHANGED notScrape
    /\ UNCHANGED <<stages, scrape_json, xlsx, hsa_entries, combined_data, futures,
                   main_pc, file_idx, to_submit>>

\* line 56: self.combined_data[excel_file_name] = {}
InitGroup(t) ==
    /\ task_pc[t] = "init"
    /\ combined_data' = SetItem(combined_data, futures[t].excel_file_name, <<>>)
    /\ task_pc' = [task_pc EXCEPT ![t] = "write"]
    /\ UNCHANGED notScrape
    /\ UNCHANGED <<stages, scrape_json, xlsx, hsa_entries, futures, main_pc, file_idx,
                   to_submit>>

\* lines 58-61: self.combined_data[excel_file_name][kegg_id] = {...}
WriteEntry(t) ==
    /\ task_pc[t] = "write"
    /\ combined_data' =
          SetItem(combined_data, futures[t].excel_file_name,
                  SetItem(Get(combined_data, futures[t].excel_file_name),
                          futures[t].kegg_id, FetchedEntry(futures[t].kegg_id)))
    /\ task_pc' = [task_pc EXCEPT ![t] = "merged"]
    /\ UNCHANGED notScrape
    /\ UNCHANGED <<stages, scrape_json, xlsx, hsa_entries, futures, main_pc, file_idx,
                   to_submit>>

NextScrape ==
    \/ LoadCache
    \/ NextFile
    \/ \E kegg_id \in to_submit : Submit(kegg_id)
    \/ AsCompleted
    \/ UpdateData
    \/ \E t \in DOMAIN futures : Start(t)
    \/ \E t \in DOMAIN futures : \E outcome \in Outcomes : Fetch(t, outcome)
    \/ \E t \in DOMAIN futures : CheckGroup(t)
    \/ \E t \in DOMAIN futures : InitGroup(t)
    \/ \E t \in DOMAIN futures : WriteEntry(t)

----------------------------------------------------------------------------
(* One call of a lookup protocol on one remote answer *)

MaxLines == 2

MaxXrefs == 2

\* 'size': 1 of the search parameters: the service answers with at most one hit
size == 1

GeneSymbols == {<<"A", "B">>, <<"C">>}

\* the KEGG organism code and the UniProt organism id fetch_kegg_ids passes
SpeciesCodes ==
    {[species |-> <<"h", "s", "a">>, organism |-> <<"9", "6", "0", "6">>],
     [species |-> <<"p", "t", "r">>, organism |-> <<"9", "5", "9", "8">>]}

\* lines a keyword search may answer with: record id, tab, gene list
KeggLines ==
    {<<"h", "s", "a", ":", "1", "\t", "A", "B", ",", " ", "C", ";", " ", "d">>,      \* AB and C are synonyms of hsa:1
     <<"h", "s", "a", ":", "2", "\t", "A", "B", "X", ";", " ", "d">>,        \* another gene, whose name contains AB
     <<"p", "t", "r", ":", "3", "\t", "C", ",", " ", "A", "B", ";", " ", "d">>,      \* the chimp record
     <<"h", "s", "a", ":", "4", "\t", "A", "B">>,            \* a gene list with no description segment
     <<"h", "s", "a", ":", "5">>,                \* no tab
     <<"h", "s", "a", ":", "6", "\t", "X", ";", " ", "A", "B", " ", "d">>,       \* AB only in the description
     <<"h", "s", "a", ":", "7", "\t", "A", "B", ";", " ", "d", ";", " ", "e">>,      \* three segments
     <<"m", "m", "u", ":", "8", "\t", "A", "B", ";", " ", "d">>}         \* another organism

SeqsUpTo(S, n) == UNION {[1..m -> S] : m \in 0..n}

\* response.text: the lines, each ended by a newline
KeggText(lines) == Join(lines, <<"\n">>) \o <<"\n">>

KeggResponses ==
    {[status |-> "ok", text |-> KeggText(ls)] : ls \in SeqsUpTo(KeggLines, MaxLines)}
    \cup {[status |-> e, text |-> <<>>] : e \in {"http error", "connection error"}}

\* cross-reference entries: {database, id} objects, and ones lacking a field
XrefEntries ==
    {<<[k |-> "database", v |-> <<"K", "E", "G", "G">>], [k |-> "id", v |-> <<"h", "s", "a", ":", "1">>]>>,
     <<[k |-> "database", v |-> <<"K", "E", "G", "G">>], [k |-> "id", v |-> <<"h", "s", "a", ":", "2">>]>>,
     <<[k |-> "database", v |-> <<"G", "O">>], [k |-> "id", v |-> <<"G", "O", ":", "7">>]>>,
     <<[k |-> "database", v |-> <<"K", "E", "G", "G">>]>>,
     <<[k |-> "id", v |-> <<"h", "s", "a", ":", "9">>]>>}

SearchHits ==
    {<<[k |-> "uniProtKBCrossReferences", v |-> xs]>> : xs \in SeqsUpTo(XrefEntries, MaxXrefs)}
    \cup {<<[k |-> "primaryAccession", v |-> <<"P", "1">>]>>}

\* response.json(): an object, another JSON value, or no JSON at all
JsonBodies ==
    {[type |-> "dict", members |-> <<[k |-> "results", v |-> hits]>>] :
        hits \in SeqsUpTo(SearchHits, size)}
    \cup {[type |-> "dict", members |-> <<>>],
          [type |-> "list", members |-> <<>>],
          [type |-> "invalid", members |-> <<>>]}

UniprotResponses ==
    {[status |-> "ok", json |-> j] : j \in JsonBodies}
    \cup {[status |-> e, json |-> [type |-> "invalid", members |-> <<>>]] :
            e \in {"http error", "connection error"}}

Calls ==
    {[fn |-> "fetch_kegg_id", gene_symbol |-> g, species |-> sp.species, response |-> r] :
        g \in GeneSymbols, sp \in SpeciesCodes, r \in KeggResponses}
    \cup
    {[fn |-> "fetch_uniprot_kegg_id", gene_symbol |-> g, species |-> sp.organism,
      response |-> r] : g \in GeneSymbols, sp \in SpeciesCodes, r \in UniprotResponses}

NoCall == [fn |-> "none"]

NotReturned == [done |-> FALSE, raised |-> FALSE, value |-> <<>>]

Outcome(r) == [done |-> TRUE, raised |-> r.raised, value |-> r.value]

ResolveIdle == call = NoCall /\ ret = NotReturned

InitResolve ==
    /\ call \in Calls
    /\ ret = NotReturned

CallFetchKeggId ==
    /\ call.fn = "fetch_kegg_id"
    /\ ~ret.done
    /\ ret' = Outcome(fetch_kegg_id(call.gene_symbol, call.species, call.response))
    /\ UNCHANGED call

CallFetchUniprotKeggId ==
    /\ call.fn = "fetch_uniprot_kegg_id"
    /\ ~ret.done
    /\ ret' = Outcome(fetch_uniprot_kegg_id(call.gene_symbol, call.species, call.response))
    /\ UNCHANGED call

NextResolve ==
    \/ CallFetchKeggId /\ UNCHANGED notResolve
    \/ CallFetchUniprotKeggId /\ UNCHANGED notResolve

----------------------------------------------------------------------------
(* The flat-record parsers: KEGGExtractor.parse_kegg_data (tolerant) and
   parse_gene_data (strict).  A record is a dict from tag to a value, a value
   being a string (is_list false, one item) or a list of strings. *)

MaxTextLines == 3

\* a loop that has no terminator test
NeverTerminator(line) == FALSE

\* line.startswith("///")
IsTerminator(line) == StartsWith(line, <<"/", "/", "/">>)

\* s.split(sep, 1), sep one character
SplitOnce(s, sep) ==
    LET at == {i \in DOMAIN s : s[i] = sep}
    IN  IF at = {} THEN <<s>>
        ELSE LET i == CHOOSE j \in at : \A m \in at : j <= m
             IN  <<SubSeq(s, 1, i - 1), SubSeq(s, i + 1, Len(s))>>

\* a store that keeps only the last value of a tag
AddValueLast(kegg_dict, current_key, value) ==
    SetItem(kegg_dict, current_key, [is_list |-> FALSE, items |-> <<value>>])

\* the if/else on current_key in kegg_dict
AddValue(kegg_dict, current_key, value) ==
    IF HasKey(kegg_dict, current_key)
    THEN LET old == Get(kegg_dict, current_key)
         IN  SetItem(kegg_dict, current_key, [is_list |-> TRUE, items |-> Append(old.items, value)])
    ELSE SetItem(kegg_dict, current_key, [is_list |-> FALSE, items |-> <<value>>])

RECURSIVE ParseLoop(_, _, _, _)
\* the for loop over data.split("\n"); tolerant is the test `if " " in line`
ParseLoop(lines, kegg_dict, current_key, tolerant) ==
    IF lines = <<>> THEN Return(kegg_dict)
    ELSE LET line == Head(lines)
             parts == SplitOnce(line, " ")
         IN  IF IsTerminator(line) THEN Return(kegg_dict)
             ELSE IF Len(parts) # 2
                  THEN IF tolerant
                       THEN ParseLoop(Tail(lines), kegg_dict, current_key, tolerant)
                       ELSE Raise
                  ELSE LET key == Strip(parts[1])
                           value == Strip(parts[2])
                           new_key == IF key # <<>> THEN key ELSE current_key
                       IN  ParseLoop(Tail(lines), AddValue(kegg_dict, new_key, value),
                                     new_key, tolerant)

\* a parser with no test of the space before the split
ParseStrictly(data) == ParseLoop(Split(data, "\n"), <<>>, <<>>, FALSE)

parse_kegg_data(data) == ParseLoop(Split(data, "\n"), <<>>, <<>>, TRUE)

parse_gene_data(data) == ParseLoop(Split(data, "\n"), <<>>, <<>>, FALSE)

MaxElements == 3

RECURSIVE GetInfoLoopAbort(_, _)
\* a loop that gives up the field at the first element it cannot split
GetInfoLoopAbort(elements, temp_dict) ==
    IF elements = <<>> THEN temp_dict
    ELSE LET parts == SplitOnce(Head(elements), " ")
         IN  IF Len(parts) # 2 THEN temp_dict
             ELSE GetInfoLoopAbort(Tail(elements), SetItem(temp_dict, parts[1], parts[2]))

RECURSIVE GetInfoLoop(_, _)
\* for element in sub_list: try the split and the store, except ValueError: print
GetInfoLoop(elements, temp_dict) ==
    IF elements = <<>> THEN temp_dict
    ELSE LET parts == SplitOnce(Head(elements), " ")
         IN  IF Len(parts) # 2 THEN GetInfoLoop(Tail(elements), temp_dict)
             ELSE GetInfoLoop(Tail(elements), SetItem(temp_dict, parts[1], parts[2]))

\* sub_list is a value of the parsed record: a string or a list of strings;
\* isinstance(sub_list, str) wraps the string into a one-element list
get_info(sub_list) == Return(GetInfoLoop(sub_list.items, <<>>))

\* elements of a field: "<id> <description>" lines, two of them with the same
\* id, one with two spaces, and one with no space
InfoElements ==
    {<<"1", "0", "1", " ", "O", "n", "e">>, <<"1", "0", "2", " ", "T", "w", "o">>, <<"1", "0", "1", " ", "U", "n", "o">>, <<"1", "0", "3", " ", " ", "T", "h", "r", "e", "e", " ", "x">>, <<"X">>}

\* the values a record field can hold
FieldValues(elements, n) ==
    {[is_list |-> FALSE, items |-> <<e>>] : e \in elements}
    \cup {[is_list |-> TRUE, items |-> es] : es \in SeqsUpTo(elements, n)}

GetInfoCalls ==
    {[fn |-> "get_info", sub_list |-> v] : v \in FieldValues(InfoElements, MaxElements)}

\* lines of a flat record: tagged lines, continuation lines, a line with no
\* space, an empty line, the terminator and a line that starts as one
TextLines ==
    {<<"A", " ", "1">>, <<"A", " ", "2">>, <<" ", "3">>, <<"B", " ", " ", "4", " ">>, <<"X">>, <<>>, <<"/", "/", "/">>, <<"/", "/", "/", "A", " ", "9">>}

\* what may follow the terminator in the text a call's text is compared with
OtherEndings == {<<>>, <<<<"C", " ", "5">>>>, <<<<"X">>, <<"A", " ", "2">>>>}

ParseCalls ==
    {[fn |-> f, data |-> Join(ls, <<"\n">>), other_ending |-> e] :
        f \in {"parse_kegg_data", "parse_gene_data"},
        ls \in SeqsUpTo(TextLines, MaxTextLines), e \in OtherEndings}

\* values as stored in filtered_kegg: a string, None, or a field of the record
PyStr(s) == [type |-> "str", value |-> s]

PyNone == [type |-> "NoneType", value |-> <<>>]

PyField(v) == IF v.is_list THEN [type |-> "list", value |-> v.items] ELSE PyStr(v.items[1])

\* d.pop(key, None)
Pop(d, key) == IF HasKey(d, key) THEN PyStr(Get(d, key)) ELSE PyNone

\* add_info: filtered_kegg[id].update({kegg_variable: kegg_dict}), or a new dict
add_info(filtered_kegg, id, kegg_variable, kegg_dict) ==
    IF HasKey(filtered_kegg, id)
    THEN SetItem(filtered_kegg, id, SetItem(Get(filtered_kegg, id), kegg_variable, kegg_dict))
    ELSE SetItem(filtered_kegg, id, <<[k |-> kegg_variable, v |-> kegg_dict]>>)

\* get_name of kegg_scrape.py: stores what pop('(RefSeq)', None) returned
get_name(filtered_kegg, kegg_info, id) ==
    IF ~HasKey(kegg_info, "NAME") THEN filtered_kegg
    ELSE LET description == get_info(Get(kegg_info, "NAME")).value
         IN  add_info(filtered_kegg, id, "description", Pop(description, <<"(", "R", "e", "f", "S", "e", "q", ")">>))

\* InfoBuilder.get_name of main.py: stores name_dict itself
InfoBuilder_get_name(filtered_kegg, kegg_info, id) ==
    IF ~HasKey(kegg_info, "NAME") THEN filtered_kegg
    ELSE add_info(filtered_kegg, id, "description", PyField(Get(kegg_info, "NAME")))

\* NAME lines: the (RefSeq) line, lines of other short ids, a line with no space
NameElements == {<<"(", "R", "e", "f", "S", "e", "q", ")", " ", "c", "y", "c", "l", "i", "n">>, <<"K", "1", " ", "a", "l", "i", "a", "s">>, <<"K", "2", " ", "o", "t", "h", "e", "r">>, <<"X">>}

\* parsed records with and without a NAME field
KeggInfos ==
    {<<>>} \cup
    {<<[k |-> "NAME", v |-> v]>> : v \in FieldValues(NameElements, MaxElements)}

\* filtered_kegg before the call: empty, or holding the id's symbol already
FilteredKeggs ==
    {<<>>, <<[k |-> "hsa:1", v |-> <<[k |-> "symbol", v |-> PyStr(<<"A", "B">>)]>>]>>}

GetNameCalls ==
    {[fn |-> f, filtered_kegg |-> fk, kegg_info |-> ki, id |-> "hsa:1"] :
        f \in {"get_name", "InfoBuilder.get_name"}, fk \in FilteredKeggs, ki \in KeggInfos}

CallGetName ==
    /\ call.fn = "get_name"
    /\ ~ret.done
    /\ ret' = Outcome(Return(get_name(call.filtered_kegg, call.kegg_info, call.id)))
    /\ UNCHANGED call

CallInfoBuilderGetName ==
    /\ call.fn = "InfoBuilder.get_name"
    /\ ~ret.done
    /\ ret' = Outcome(Return(InfoBuilder_get_name(call.filtered_kegg, call.kegg_info, call.id)))
    /\ UNCHANGED call

InitParse ==
    /\ call \in ParseCalls \cup GetInfoCalls \cup GetNameCalls
    /\ ret = NotReturned

CallParseKeggData ==
    /\ call.fn = "parse_kegg_data"
    /\ ~ret.done
    /\ ret' = Outcome(parse_kegg_data(call.data))
    /\ UNCHANGED call

CallParseGeneData ==
    /\ call.fn = "parse_gene_data"
    /\ ~ret.done
    /\ ret' = Outcome(parse_gene_data(call.data))
    /\ UNCHANGED call

CallGetInfo ==
    /\ call.fn = "get_info"
    /\ ~ret.done
    /\ ret' = Outcome(get_info(call.sub_list))
    /\ UNCHANGED call

NextParse ==
    \/ CallParseKeggData /\ UNCHANGED notResolve
    \/ CallParseGeneData /\ UNCHANGED notResolve
    \/ CallGetInfo /\ UNCHANGED notResolve
    \/ CallGetName /\ UNCHANGED notResolve
    \/ CallInfoBuilderGetName /\ UNCHANGED notResolve

----------------------------------------------------------------------------
(* process_files and KeggIdFetcher.get_kegg_id_multiple *)

MaxRows == 2

\* the Significant* files of the data directory, in glob order
DataFiles == <<"Significant_BM_a_b", "Significant_LIVER_a_b">>

\* the default of KeggIdFetcher.__init__
fetcher_max_workers == 5

\* Gene_Symbol cells of the Analysis sheet
Cells == {<<"A", "B">>, <<"Z", "Z">>, <<"E", "H">>, <<"E", "C">>, <<"E", "M">>, <<"E", "J">>, <<"A", "-", "B", " ", "/", "Z", "Z", " ", "x">>}

\* a {database, id} cross-reference
Xref(database, id) == <<[k |-> "database", v |-> database], [k |-> "id", v |-> id]>>

\* a JSON body with one hit holding the cross-references xrefs
SearchResult(xrefs) ==
    [type |-> "dict",
     members |-> <<[k |-> "results",
                    v |-> <<<<[k |-> "uniProtKBCrossReferences", v |-> xrefs]>>>>]>>]

\* What the keyword search answers for each symbol: AB is a gene of both
\* species, ZZ is unknown, for EH the service answers with an HTTP error status
\* and for EM with a body cut off after a record id.
KeggService(symbol) ==
    CASE symbol = <<"E", "H">> -> [status |-> "http error", text |-> <<>>]
      [] symbol = <<"E", "M">> -> [status |-> "ok", text |-> <<"h", "s", "a", ":", "5", "\n">>]
      [] symbol = <<"Z", "Z">> -> [status |-> "ok", text |-> <<"\n">>]
      [] OTHER -> [status |-> "ok", text |-> <<"h", "s", "a", ":", "1", "\t", "A", "B", ",", " ", "C", ";", " ", "d", "\n", "p", "t", "r", ":", "3", "\t", "C", ",", " ", "A", "B", ";", " ", "d", "\n">>]

\* What the record search answers: for EC the connection fails, for EJ the body
\* is JSON but not an object, ZZ has no hit, the others have a KEGG
\* cross-reference after one of another database.
UniprotService(symbol, organism) ==
    CASE symbol = <<"E", "C">> ->
            [status |-> "connection error", json |-> [type |-> "invalid", members |-> <<>>]]
      [] symbol = <<"E", "J">> -> [status |-> "ok", json |-> [type |-> "list", members |-> <<>>]]
      [] symbol = <<"Z", "Z">> ->
            [status |-> "ok",
             json |-> [type |-> "dict", members |-> <<[k |-> "results", v |-> <<>>]>>]]
      [] OTHER ->
            [status |-> "ok",
             json |-> SearchResult(<<Xref(<<"G", "O">>, <<"G", "O", ":", "7">>),
                                     Xref(<<"K", "E", "G", "G">>, IF organism = <<"9", "6", "0", "6">> THEN <<"h", "s", "a", ":", "1">>
                                                   ELSE <<"p", "t", "r", ":", "3">>)>>)]

\* fetch_kegg_ids: the four calls in order; the first that raises ends the task
fetch_kegg_ids(gene_symbol) ==
    LET human_uniprot_id ==
            fetch_uniprot_kegg_id(gene_symbol, <<"9", "6", "0", "6">>, UniprotService(gene_symbol, <<"9", "6", "0", "6">>))
        human_kegg_id == fetch_kegg_id(gene_symbol, <<"h", "s", "a">>, KeggService(gene_symbol))
        chimp_uniprot_id ==
            fetch_uniprot_kegg_id(gene_symbol, <<"9", "5", "9", "8">>, UniprotService(gene_symbol, <<"9", "5", "9", "8">>))
        chimp_kegg_id == fetch_kegg_id(gene_symbol, <<"p", "t", "r">>, KeggService(gene_symbol))
    IN  IF \/ human_uniprot_id.raised \/ human_kegg_id.raised
           \/ chimp_uniprot_id.raised \/ chimp_kegg_id.raised
        THEN [raised |-> TRUE, value |-> <<>>]
        ELSE [raised |-> FALSE,
              value |-> <<human_uniprot_id.value, human_kegg_id.value,
                          chimp_uniprot_id.value, chimp_kegg_id.value>>]

\* s.partition(' ')[0]
BeforeSpace(s) == Split(s, " ")[1]

\* s.replace('-', '')
RECURSIVE WithoutDashes(_)
WithoutDashes(s) ==
    IF s = <<>> THEN <<>>
    ELSE IF Head(s) = "-" THEN WithoutDashes(Tail(s))
         ELSE <<Head(s)>> \o WithoutDashes(Tail(s))

RECURSIVE CleanSymbols(_)
CleanSymbols(parts) ==
    IF parts = <<>> THEN <<>>
    ELSE <<WithoutDashes(BeforeSpace(Head(parts)))>> \o CleanSymbols(Tail(parts))

\* lines 94, 104-105: the symbols of a Gene_Symbol cell
SymbolsOf(cell) == CleanSymbols(Split(Strip(cell), "/"))

EmptyLists ==
    [human_uniprot_list |-> <<>>, human_kegg_list |-> <<>>,
     chimp_uniprot_list |-> <<>>, chimp_kegg_list |-> <<>>]

FileStates ==
    {[has_output |-> TRUE, rows |-> <<>>]}
    \cup {[has_output |-> FALSE, rows |-> rs] : rs \in SeqsUpTo(Cells, MaxRows)}

\* the last file: processed by an earlier run, or one row to resolve
LastFileStates ==
    {[has_output |-> TRUE, rows |-> <<>>], [has_output |-> FALSE, rows |-> <<<<"A", "B">>>>]}

Finished(task) == task.st \in {"returned", "raised"}

FetchIdle ==
    /\ data_files = <<>>
    /\ keep_running = TRUE
    /\ pf_pc = "idle"
    /\ pf_file = 1
    /\ pf_row = 1
    /\ symbols_left = <<>>
    /\ row_tasks = <<>>
    /\ lists = EmptyLists
    /\ kegg_id_df = <<>>
    /\ output_files = <<>>

InitFetch ==
    /\ data_files \in {<<first, last>> : first \in FileStates, last \in LastFileStates}
    /\ keep_running = TRUE
    /\ pf_pc = "for_file"
    /\ pf_file = 1
    /\ pf_row = 1
    /\ symbols_left = <<>>
    /\ row_tasks = <<>>
    /\ lists = EmptyLists
    /\ kegg_id_df = <<>>
    /\ output_files = [f \in DOMAIN DataFiles |->
                         [exists |-> data_files[f].has_output, rows |-> <<>>]]

\* lines 148-156, 163-165: the next file; one whose output exists is skipped
ForFile ==
    /\ pf_pc = "for_file"
    /\ IF pf_file > Len(DataFiles)
       THEN pf_pc' = "done" /\ UNCHANGED <<pf_file, pf_row>>
       ELSE IF output_files[pf_file].exists
            THEN pf_pc' = "for_file" /\ pf_file' = pf_file + 1 /\ UNCHANGED pf_row
            ELSE /\ pf_pc' = IF data_files[pf_file].rows = <<>> THEN "to_excel" ELSE "row"
                 /\ pf_row' = 1
                 /\ UNCHANGED pf_file
    /\ kegg_id_df' = <<>>
    /\ UNCHANGED <<data_files, keep_running, symbols_left, row_tasks, lists, output_files>>

\* lines 94-103: get_kegg_id_multiple is entered for the next row
EnterRow ==
    /\ pf_pc = "row"
    /\ lists' = EmptyLists
    /\ row_tasks' = <<>>
    /\ IF ~keep_running
       THEN /\ kegg_id_df' = Append(kegg_id_df,
                                    [Gene_Symbol |-> data_files[pf_file].rows[pf_row]])
            /\ pf_row' = pf_row + 1
            /\ pf_pc' = IF pf_row < Len(data_files[pf_file].rows) THEN "row" ELSE "to_excel"
            /\ UNCHANGED symbols_left
       ELSE /\ symbols_left' = SymbolsOf(data_files[pf_file].rows[pf_row])
            /\ pf_pc' = "submit"
            /\ UNCHANGED <<kegg_id_df, pf_row>>
    /\ UNCHANGED <<data_files, keep_running, pf_file, output_files>>

\* lines 104-106: executor.submit(self.fetch_kegg_ids, symbol)
SubmitSymbol ==
    /\ pf_pc = "submit"
    /\ symbols_left # <<>>
    /\ row_tasks' = Append(row_tasks,
                           [symbol |-> Head(symbols_left), st |-> "queued",
                            collected |-> FALSE, value |-> <<>>])
    /\ symbols_left' = Tail(symbols_left)
    /\ pf_pc' = IF Tail(symbols_left) = <<>> THEN "as_completed" ELSE "submit"
    /\ UNCHANGED <<data_files, keep_running, pf_file, pf_row, lists, kegg_id_df,
                   output_files>>

\* a pool thread takes the oldest queued task
StartFetch(t) ==
    /\ row_tasks[t].st = "queued"
    /\ \A u \in 1..(t - 1) : row_tasks[u].st # "queued"
    /\ Cardinality({u \in DOMAIN row_tasks : row_tasks[u].st = "running"})
          < fetcher_max_workers
    /\ row_tasks' = [row_tasks EXCEPT ![t].st = "running"]
    /\ UNCHANGED <<data_files, keep_running, pf_pc, pf_file, pf_row, symbols_left,
                   lists, kegg_id_df, output_files>>

\* the task body: fetch_kegg_ids(symbol) returns its tuple or raises
RunFetch(t) ==
    /\ row_tasks[t].st = "running"
    /\ row_tasks' = [row_tasks EXCEPT
                       ![t].st = IF fetch_kegg_ids(row_tasks[t].symbol).raised
                                 THEN "raised" ELSE "returned",
                       ![t].value = fetch_kegg_ids(row_tasks[t].symbol).value]
    /\ UNCHANGED <<data_files, keep_running, pf_pc, pf_file, pf_row, symbols_left,
                   lists, kegg_id_df, output_files>>

\* lines 108-118: as_completed yields a finished future; its tuple is appended
\* to the four lists, or its exception is logged
Collect(t) ==
    /\ pf_pc = "as_completed"
    /\ Finished(row_tasks[t])
    /\ ~row_tasks[t].collected
    /\ IF ~keep_running
       THEN pf_pc' = "join" /\ UNCHANGED <<lists, row_tasks>>       \* break
       ELSE /\ row_tasks' = [row_tasks EXCEPT ![t].collected = TRUE]
            /\ lists' =
                 IF row_tasks[t].st = "raised" THEN lists
                 ELSE [human_uniprot_list |->
                          Append(lists.human_uniprot_list, row_tasks[t].value[1]),
                       human_kegg_list |->
                          Append(lists.human_kegg_list, row_tasks[t].value[2]),
                       chimp_uniprot_list |->
                          Append(lists.chimp_uniprot_list, row_tasks[t].value[3]),
                       chimp_kegg_list |->
                          Append(lists.chimp_kegg_list, row_tasks[t].value[4])]
            /\ pf_pc' = IF \A u \in DOMAIN row_tasks : u = t \/ row_tasks[u].collected
                        THEN "join" ELSE "as_completed"
    /\ UNCHANGED <<data_files, keep_running, pf_file, pf_row, symbols_left,
                   kegg_id_df, output_files>>

\* lines 120-125: the with block has ended (every task finished); the row gets
\* its four columns
JoinRow ==
    /\ pf_pc = "join"
    /\ \A u \in DOMAIN row_tasks : Finished(row_tasks[u])
    /\ kegg_id_df' = Append(kegg_id_df,
          [Gene_Symbol |-> data_files[pf_file].rows[pf_row],
           KEGG_ID_UNIPROT_HUMAN |-> Join(lists.human_uniprot_list, <<"/">>),
           KEGG_ID_HUMAN |-> Join(lists.human_kegg_list, <<"/">>),
           KEGG_ID_UNIPROT_CHIMP |-> Join(lists.chimp_uniprot_list, <<"/">>),
           KEGG_ID_CHIMP |-> Join(lists.chimp_kegg_list, <<"/">>)])
    /\ pf_row' = pf_row + 1
    /\ pf_pc' = IF pf_row < Len(data_files[pf_file].rows) THEN "row" ELSE "to_excel"
    /\ UNCHANGED <<data_files, keep_running, pf_file, symbols_left, row_tasks, lists,
                   output_files>>

\* lines 160-162: result.to_excel(output_file)
ToExcel ==
    /\ pf_pc = "to_excel"
    /\ output_files' = [output_files EXCEPT
                          ![pf_file] = [exists |-> TRUE, rows |-> kegg_id_df]]
    /\ pf_file' = pf_file + 1
    /\ pf_pc' = "for_file"
    /\ kegg_id_df' = <<>>
    /\ UNCHANGED <<data_files, keep_running, pf_row, symbols_left, row_tasks, lists>>

\* signal_handler, run by the main thread wherever it stands in process_files:
\* it clears keep_running and sys.exit(0) raises SystemExit there
SignalHandler ==
    /\ pf_pc \in {"for_file", "row", "submit", "as_completed", "join", "to_excel"}
    /\ keep_running' = FALSE
    /\ pf_pc' = "exiting"
    /\ UNCHANGED <<data_files, pf_file, pf_row, symbols_left, row_tasks, lists,
                   kegg_id_df, output_files>>

\* SystemExit leaves the with block, whose exit waits for the submitted tasks
\* (shutdown(wait=True)), and then process_files: the interpreter exits
SystemExit ==
    /\ pf_pc = "exiting"
    /\ \A u \in DOMAIN row_tasks : Finished(row_tasks[u])
    /\ pf_pc' = "exited"
    /\ UNCHANGED <<data_files, keep_running, pf_file, pf_row, symbols_left, row_tasks,
                   lists, kegg_id_df, output_files>>

NextFetch ==
    \/ ForFile /\ UNCHANGED notFetch
    \/ EnterRow /\ UNCHANGED notFetch
    \/ SubmitSymbol /\ UNCHANGED notFetch
    \/ \E t \in DOMAIN row_tasks : StartFetch(t) /\ UNCHANGED notFetch
    \/ \E t \in DOMAIN row_tasks : RunFetch(t) /\ UNCHANGED notFetch
    \/ \E t \in DOMAIN row_tasks : Collect(t) /\ UNCHANGED notFetch
    \/ JoinRow /\ UNCHANGED notFetch
    \/ ToExcel /\ UNCHANGED notFetch
    \/ SignalHandler /\ UNCHANGED notFetch
    \/ SystemExit /\ UNCHANGED notFetch

----------------------------------------------------------------------------
(* The specifications *)

\* run_scrape
Init == InitScrape /\ ResolveIdle /\ FetchIdle

Next == NextScrape

Spec == Init /\ [][Next]_vars

\* one call of a lookup protocol
InitResolveCall == InitResolve /\ ScrapeIdle /\ FetchIdle

SpecResolve == InitResolveCall /\ [][NextResolve]_vars

\* process_files, with the interrupt signal
InitProcessFiles == InitFetch /\ ScrapeIdle /\ ResolveIdle

SpecFetchIds == InitProcessFiles /\ [][NextFetch]_vars

\* scrape_info.main: the signature `def process_files():` and the arguments of
\* the call process_files(input_dir)
process_files_params == <<>>

process_files_args == <<"input_dir">>

\* a call binds its positional arguments to the parameters, or raises TypeError
Binds(params, args) == Len(args) = Len(params)

InitMain ==
    /\ scrape_json \in CacheFiles
    /\ xlsx \in [Files -> SUBSET Ids]
    /\ hsa_entries = [type |-> "dict", members |-> <<>>]
    /\ combined_data = <<>>
    /\ futures = <<>>
    /\ task_pc = <<>>
    /\ stages = <<>>
    /\ main_pc = "main"
    /\ file_idx = 1
    /\ to_submit = {}
    /\ data_files \in {<<first, last>> : first \in LastFileStates, last \in LastFileStates}
    /\ keep_running = TRUE
    /\ pf_pc = "idle"
    /\ pf_file = 1
    /\ pf_row = 1
    /\ symbols_left = <<>>
    /\ row_tasks = <<>>
    /\ lists = EmptyLists
    /\ kegg_id_df = <<>>
    /\ output_files = [f \in DOMAIN DataFiles |->
                         [exists |-> data_files[f].has_output, rows |-> <<>>]]
    /\ ResolveIdle

\* lines 142-155: parse the arguments, touch scrape.json when it is missing,
\* make the output directory
MainSetup ==
    /\ main_pc = "main"
    /\ scrape_json' = IF scrape_json.kind = "absent"
                      THEN [kind |-> "empty", members |-> <<>>] ELSE scrape_json
    /\ main_pc' = "process_files"
    /\ UNCHANGED <<xlsx, hsa_entries, combined_data, futures, task_pc, stages,
                   file_idx, to_submit>>
    /\ UNCHANGED notScrape

\* line 158: process_files(input_dir)
MainProcessFiles ==
    /\ main_pc = "process_files"
    /\ IF Binds(process_files_params, process_files_args)
       THEN /\ main_pc' = "in process_files"
            /\ pf_pc' = "for_file"
       ELSE /\ main_pc' = "raised"
            /\ pf_pc' = pf_pc
    /\ UNCHANGED <<scrape_json, xlsx, hsa_entries, combined_data, futures, task_pc,
                   stages, file_idx, to_submit>>
    /\ UNCHANGED <<data_files, keep_running, pf_file, pf_row, symbols_left, row_tasks,
                   lists, kegg_id_df, output_files>>
    /\ UNCHANGED resolveVars

\* lines 160-165, after run_scrape returned: scrape.json rewritten in full
MainWriteJson ==
    /\ main_pc = "returned"
    /\ scrape_json' = [kind |-> "object", members |-> combined_data]
    /\ main_pc' = "written"
    /\ UNCHANGED <<xlsx, hsa_entries, combined_data, futures, task_pc, stages,
                   file_idx, to_submit>>
    /\ UNCHANGED notScrape

\* the steps of main a run takes: the call of line 158 raises, so the lines
\* after it are never reached
NextMain ==
    \/ MainSetup
    \/ MainProcessFiles

SpecMain == InitMain /\ [][NextMain]_vars

\* more work than a pool is wide: one input file with max_workers + 1 ids, or
\* one row whose cell names fetcher_max_workers + 1 symbols
PoolIds == {IdName[i] : i \in 1..(max_workers + 1)}

RECURSIVE Repeat(_, _)
Repeat(cell, n) == IF n = 1 THEN cell ELSE cell \o <<"/">> \o Repeat(cell, n - 1)

PoolCell == Repeat(<<"A", "B">>, fetcher_max_workers + 1)

InitPool ==
    \/ /\ scrape_json = [kind |-> "absent", members |-> <<>>]
       /\ xlsx = [f \in Files |-> IF f = FileOrder[1] THEN PoolIds ELSE {}]
       /\ hsa_entries = [type |-> "dict", members |-> <<>>]
       /\ combined_data = <<>>
       /\ futures = <<>>
       /\ task_pc = <<>>
       /\ stages = <<>>
       /\ main_pc = "get_json"
       /\ file_idx = 1
       /\ to_submit = {}
       /\ ResolveIdle /\ FetchIdle
    \/ /\ data_files = <<[has_output |-> FALSE, rows |-> <<PoolCell>>],
                         [has_output |-> TRUE, rows |-> <<>>]>>
       /\ keep_running = TRUE
       /\ pf_pc = "for_file"
       /\ pf_file = 1
       /\ pf_row = 1
       /\ symbols_left = <<>>
       /\ row_tasks = <<>>
       /\ lists = EmptyLists
       /\ kegg_id_df = <<>>
       /\ output_files = [f \in DOMAIN DataFiles |->
                            [exists |-> data_files[f].has_output, rows |-> <<>>]]
       /\ ScrapeIdle /\ ResolveIdle

\* the inputs of the pool runs: the set is iterated in id order, and a task
\* either completes every stage or raises
PoolOutcomes == {"ok", "exception"}

FirstOf(S) == CHOOSE kegg_id \in S : \A i, j \in DOMAIN IdName :
                  (IdName[i] = kegg_id /\ IdName[j] \in S) => i <= j

NextPool ==
    \/ LoadCache
    \/ NextFile
    \/ (to_submit # {} /\ Submit(FirstOf(to_submit)))
    \/ AsCompleted
    \/ UpdateData
    \/ \E t \in DOMAIN futures : Start(t)
    \/ \E t \in DOMAIN futures : \E outcome \in PoolOutcomes : Fetch(t, outcome)
    \/ \E t \in DOMAIN futures : CheckGroup(t)
    \/ \E t \in DOMAIN futures : InitGroup(t)
    \/ \E t \in DOMAIN futures : WriteEntry(t)
    \/ NextFetch

SpecPool == InitPool /\ [][NextPool]_vars

\* run_scrape on one input file with no cache
MaxBatch == 3

InitBatch ==
    /\ scrape_json = [kind |-> "absent", members |-> <<>>]
    /\ \E S \in SUBSET {IdName[i] : i \in 1..MaxBatch} :
          xlsx = [f \in Files |-> IF f = FileOrder[1] THEN S ELSE {}]
    /\ hsa_entries = [type |-> "dict", members |-> <<>>]
    /\ combined_data = <<>>
    /\ futures = <<>>
    /\ task_pc = <<>>
    /\ stages = <<>>
    /\ main_pc = "get_json"
    /\ file_idx = 1
    /\ to_submit = {}
    /\ ResolveIdle /\ FetchIdle

SpecBatch == InitBatch /\ [][NextScrape]_vars

\* the same run under a scheduler that keeps running whatever can run: the main
\* thread and every pool thread take their next step as soon as it is possible
SpecBatchFair == InitBatch /\ [][NextScrape]_vars /\ WF_vars(NextScrape)

----------------------------------------------------------------------------
(* get_cell_type_and_ids on the two id columns of an extended sheet *)

MaxSheetRows == 2

MaxSymbols == 2

\* a missing cell: NaN as read from the sheet, pd.NA after replace
NA == [type |-> "NA", value |-> <<>>]

\* df.dropna(): the rows with no missing cell
HasNoNA(row) == row.KEGG_ID_UNIPROT_HUMAN # NA /\ row.KEGG_ID_HUMAN # NA

dropna(df) == SelectSeq(df, HasNoNA)

\* df.replace("No hit", pd.NA): a cell is replaced when it equals the value
ReplaceCell(cell, to_replace, value) == IF cell = PyStr(to_replace) THEN value ELSE cell

replace(df, to_replace, value) ==
    [r \in DOMAIN df |->
        [KEGG_ID_UNIPROT_HUMAN |-> ReplaceCell(df[r].KEGG_ID_UNIPROT_HUMAN, to_replace, value),
         KEGG_ID_HUMAN |-> ReplaceCell(df[r].KEGG_ID_HUMAN, to_replace, value)]]

RECURSIVE ravel(_)
\* .values.ravel(): the cells row by row, in column order
ravel(df) ==
    IF df = <<>> THEN <<>>
    ELSE <<Head(df).KEGG_ID_UNIPROT_HUMAN, Head(df).KEGG_ID_HUMAN>> \o ravel(Tail(df))

RECURSIVE unique(_, _)
\* pd.unique: the first occurrence of each value, in order of appearance
unique(values, seen) ==
    IF values = <<>> THEN <<>>
    ELSE IF Head(values) \in seen THEN unique(Tail(values), seen)
         ELSE <<Head(values)>> \o unique(Tail(values), seen \cup {Head(values)})

RECURSIVE SplitAll(_)
\* [x for i in ids for x in i.split("/")]
SplitAll(ids) ==
    IF ids = <<>> THEN <<>>
    ELSE Split(Head(ids).value, "/") \o SplitAll(Tail(ids))

\* get_cell_type_and_ids(excel_file, data_processor)[1], df the two columns read
get_cell_type_and_ids(df) ==
    SplitAll(unique(ravel(dropna(replace(dropna(df), NoHit, NA))), {}))

\* what one protocol reports for one symbol
ProtocolResults == {<<"h", "s", "a", ":", "1">>, NoHit}

\* a cell as get_kegg_id_multiple wrote it: the results of the row's symbols
\* joined by "/"
JoinedCells == {PyStr(Join(rs, <<"/">>)) : rs \in SeqsUpTo(ProtocolResults, MaxSymbols) \ {<<>>}}

Parts(cell) == Len(Split(cell.value, "/"))

\* the rows of the sheet: one result per symbol in each column, or both cells
\* missing (a row that the merge added with no ids)
SheetRows ==
    {row \in [KEGG_ID_UNIPROT_HUMAN : JoinedCells, KEGG_ID_HUMAN : JoinedCells] :
        Parts(row.KEGG_ID_UNIPROT_HUMAN) = Parts(row.KEGG_ID_HUMAN)}
    \cup {[KEGG_ID_UNIPROT_HUMAN |-> NA, KEGG_ID_HUMAN |-> NA]}

SheetCalls ==
    {[fn |-> "get_cell_type_and_ids", df |-> df] : df \in SeqsUpTo(SheetRows, MaxSheetRows)}

CallGetCellTypeAndIds ==
    /\ call.fn = "get_cell_type_and_ids"
    /\ ~ret.done
    /\ ret' = Outcome(Return(get_cell_type_and_ids(call.df)))
    /\ UNCHANGED call
    /\ UNCHANGED notResolve

\* one call of get_cell_type_and_ids
InitSheet == call \in SheetCalls /\ ret = NotReturned /\ ScrapeIdle /\ FetchIdle

NextSheet == CallGetCellTypeAndIds

SpecSheet == InitSheet /\ [][NextSheet]_vars

\* one call of a flat-record parser or of the sub-list splitter
InitParseCall == InitParse /\ ScrapeIdle /\ FetchIdle

SpecParse == InitParseCall /\ [][NextParse]_vars

----------------------------------------------------------------------------
(* What run_scrape's result is compared with *)

\* lines 55-61 run by one task with no other task in between
MergeEntry(data, fut) ==
    LET grouped == IF HasKey(data, fut.excel_file_name) THEN data
                   ELSE SetItem(data, fut.excel_file_name, <<>>)
    IN  SetItem(grouped, fut.excel_file_name,
                SetItem(Get(grouped, fut.excel_file_name), fut.kegg_id,
                        FetchedEntry(fut.kegg_id)))

RECURSIVE MergeInOrder(_, _)
\* the tasks that merged, completing one after the other in submission order
\* (what a pool of width 1 does)
MergeInOrder(data, t) ==
    IF t > Len(futures) THEN data
    ELSE MergeInOrder(IF task_pc[t] = "merged" THEN MergeEntry(data, futures[t]) ELSE data,
                      t + 1)

RECURSIVE DumpEntries(_)
\* json.dumps of the entries of one group, in the dict's order
DumpEntries(inner) ==
    IF inner = <<>> THEN <<>>
    ELSE <<Head(inner).k, ":", "{", "kegg_data", ":">> \o Head(inner).v.kegg_data
         \o <<"hpa_data", ":", Head(inner).v.hpa_data, "}">> \o DumpEntries(Tail(inner))

RECURSIVE DumpGroups(_)
DumpGroups(data) ==
    IF data = <<>> THEN <<>>
    ELSE <<Head(data).k, ":", "{">> \o DumpEntries(Head(data).v) \o <<"}">>
         \o DumpGroups(Tail(data))

\* json.dumps(combined_data, indent=4): the keys in the dicts' insertion order
json_dumps(data) == <<"{">> \o DumpGroups(data) \o <<"}">>

\* the (group, id) pairs the persisted cache holds an entry for
Cached(g, id) ==
    /\ scrape_json.kind = "object"
    /\ HasKey(scrape_json.members, g)
    /\ HasKey(Get(scrape_json.members, g), id)

\* the (group, id) pairs the returned data holds an entry for
Returned(g, id) ==
    /\ HasKey(combined_data, g)
    /\ HasKey(Get(combined_data, g), id)

----------------------------------------------------------------------------
(* Claims about run_scrape *)

\* C1: run_scrape submits no fetch task for an id the persisted cache already
\* holds an entry for (in the group of the requesting file), and the data it
\* returns still holds every cached entry unchanged.
C1_CachedIdsNotRefetched ==
    /\ \A t \in DOMAIN futures :
          ~Cached(futures[t].excel_file_name, futures[t].kegg_id)
    /\ main_pc = "returned" =>
          \A g \in Files : \A id \in Ids :
             Cached(g, id) =>
                Returned(g, id) /\ Get(Get(combined_data, g), id) = CachedEntry(id)

\* C2: the data run_scrape returns is the union of the loaded cache and this
\* run's results: every cached entry and every entry a task merged in this run
\* is in it, also when the new id's group already has entries in the cache.
C2_OutputIsUnion ==
    main_pc = "returned" =>
       /\ \A g \in Files : \A id \in Ids : Cached(g, id) => Returned(g, id)
       /\ \A t \in DOMAIN futures :
             task_pc[t] = "merged" =>
                Returned(futures[t].excel_file_name, futures[t].kegg_id)

\* C3: combined_data is written only by the orchestrating thread, after the
\* worker tasks have completed: no step of a worker task changes it.
C3_OnlyOrchestratorWrites ==
    [][combined_data' # combined_data =>
          /\ task_pc' = task_pc
          /\ \A t \in DOMAIN futures : Terminal(task_pc[t])]_vars

\* C4: the serialised data run_scrape returns does not depend on the order the
\* worker tasks complete in: it is what the tasks completing one by one in
\* submission order (a pool of width 1) produce.
C4_CompletionOrderIndependent ==
    main_pc = "returned" =>
       json_dumps(combined_data)
          = json_dumps(update_data(MergeInOrder(<<>>, 1), hsa_entries.members))

----------------------------------------------------------------------------
(* Claims about the lookup protocols *)

KeggCallDone == call.fn = "fetch_kegg_id" /\ ret.done

UniprotCallDone == call.fn = "fetch_uniprot_kegg_id" /\ ret.done

Range(s) == {s[i] : i \in DOMAIN s}

Min(S) == CHOOSE i \in S : \A j \in S : i <= j

\* the lines of the keyword search's answer
ResponseLines == Split(Strip(call.response.text), "\n")

\* the three conditions of C6 on one line
AcceptedLine(line, gene_symbol, species) ==
    LET parts == Split(line, "\t")
    IN  /\ Len(parts) = 2
        /\ StartsWith(parts[1], species)
        /\ Len(Split(parts[2], ";")) = 2
        /\ \E synonym \in Range(Split(Split(parts[2], ";")[1], ",")) :
              Strip(synonym) = gene_symbol

AcceptedLines ==
    {i \in DOMAIN ResponseLines :
        AcceptedLine(ResponseLines[i], call.gene_symbol, call.species)}

\* C6: fetch_kegg_id returns the id of the first response line whose record id
\* starts with the species code, whose gene list has exactly two
\* semicolon-delimited segments and whose first segment has the queried symbol
\* among its trimmed comma-separated synonyms; "No hit" when there is none.
\* (Stated for answers whose lines all are <id> tab <gene list>.)
C6_FirstAcceptedLine ==
    (/\ KeggCallDone /\ call.response.status = "ok"
     /\ \A i \in DOMAIN ResponseLines :
           ResponseLines[i] = <<>> \/ Len(Split(ResponseLines[i], "\t")) = 2)
    =>
       /\ ~ret.raised
       /\ ret.value = IF AcceptedLines = {} THEN NoHit
                      ELSE Split(ResponseLines[Min(AcceptedLines)], "\t")[1]

\* the keyword search answered, and no line of the species names the symbol in
\* its gene list: each such line is <id> tab <gene list>, and the symbol does not
\* occur in the part of the gene list before the first semicolon
KeywordSearchMisses ==
    /\ call.response.status = "ok"
    /\ \A i \in DOMAIN ResponseLines :
          StartsWith(ResponseLines[i], call.species \o <<":">>) =>
             /\ Len(Split(ResponseLines[i], "\t")) = 2
             /\ ~Contains(Split(Split(ResponseLines[i], "\t")[2], ";")[1],
                          call.gene_symbol)

\* the cross-references of the first search hit ([] when there is no hit)
FirstHitXrefs ==
    LET results == GetOr(call.response.json.members, "results", <<>>)
    IN  IF results = <<>> THEN <<>>
        ELSE GetOr(results[1], "uniProtKBCrossReferences", <<>>)

\* the record search answered with an object holding no hit, or a hit none of
\* whose cross-references is a KEGG one
RecordSearchMisses ==
    /\ call.response.status = "ok"
    /\ call.response.json.type = "dict"
    /\ \A i \in DOMAIN FirstHitXrefs :
          /\ HasKey(FirstHitXrefs[i], "database")
          /\ Get(FirstHitXrefs[i], "database") # <<"K", "E", "G", "G">>

KeggXrefs ==
    {i \in DOMAIN FirstHitXrefs :
        /\ HasKey(FirstHitXrefs[i], "database")
        /\ Get(FirstHitXrefs[i], "database") = <<"K", "E", "G", "G">>}

FirstKeggXref == FirstHitXrefs[Min(KeggXrefs)]

AnsweredWithKeggXref ==
    /\ call.response.status = "ok"
    /\ call.response.json.type = "dict"
    /\ KeggXrefs # {}

----------------------------------------------------------------------------
(* Claims about process_files and get_kegg_id_multiple *)

\* C5: when the interrupt signal arrives while process_files resolves ids,
\* keep_running is cleared, the tasks in flight finish, no task is submitted
\* afterwards, and the run ends with the rows resolved before the interrupt
\* written to the output file.
C5_InterruptKeepsResults ==
    [][/\ (pf_pc # "exiting" /\ pf_pc' = "exiting") => ~keep_running'
       /\ ~keep_running => Len(row_tasks') = Len(row_tasks)
       /\ pf_pc' = "exited" =>
             /\ \A u \in DOMAIN row_tasks' : Finished(row_tasks'[u])
             /\ \A i \in DOMAIN kegg_id_df' :
                   /\ output_files'[pf_file'].exists
                   /\ kegg_id_df'[i] \in Range(output_files'[pf_file'].rows)]_vars

\* the body of the keyword search's answer is not lines of <id> tab <gene list>
MalformedText(text) ==
    \E line \in Range(Split(Strip(text), "\n")) :
       line # <<>> /\ Len(Split(line, "\t")) # 2

\* a network or protocol error on the keyword search for symbol
KeggError(symbol) ==
    \/ KeggService(symbol).status # "ok"
    \/ MalformedText(KeggService(symbol).text)

\* a network or protocol error on the record search for symbol
UniprotError(symbol, organism) ==
    \/ UniprotService(symbol, organism).status # "ok"
    \/ UniprotService(symbol, organism).json.type # "dict"

\* what C7 says each protocol reports for symbol
ReportedKegg(symbol, species) ==
    IF KeggError(symbol) THEN NoHit
    ELSE fetch_kegg_id(symbol, species, KeggService(symbol)).value

ReportedUniprot(symbol, organism) ==
    IF UniprotError(symbol, organism) THEN NoHit
    ELSE fetch_uniprot_kegg_id(symbol, organism, UniprotService(symbol, organism)).value

SymbolHasError(symbol) ==
    \/ KeggError(symbol)
    \/ UniprotError(symbol, <<"9", "6", "0", "6">>)
    \/ UniprotError(symbol, <<"9", "5", "9", "8">>)

\* the row reports, at one position of its four columns, the four results of symbol
RowReports(row, symbol) ==
    \E i \in DOMAIN Split(row.KEGG_ID_HUMAN, "/") :
       /\ Split(row.KEGG_ID_UNIPROT_HUMAN, "/")[i] = ReportedUniprot(symbol, <<"9", "6", "0", "6">>)
       /\ Split(row.KEGG_ID_HUMAN, "/")[i] = ReportedKegg(symbol, <<"h", "s", "a">>)
       /\ Split(row.KEGG_ID_UNIPROT_CHIMP, "/")[i] = ReportedUniprot(symbol, <<"9", "5", "9", "8">>)
       /\ Split(row.KEGG_ID_CHIMP, "/")[i] = ReportedKegg(symbol, <<"p", "t", "r">>)

\* C7: for a network or protocol error on either remote call made for a symbol
\* (an HTTP error status, a connection failure, a body of unexpected shape),
\* the row get_kegg_id_multiple returns reports "No hit" for the affected
\* protocol and the other protocol's result for that symbol.
C7_ErrorsBecomeNoHit ==
    \A i \in DOMAIN kegg_id_df :
       \A symbol \in Range(SymbolsOf(kegg_id_df[i].Gene_Symbol)) :
          SymbolHasError(symbol) => RowReports(kegg_id_df[i], symbol)

----------------------------------------------------------------------------
(* Claims about the flat-record parsers *)

ParseCallDone == call.fn \in {"parse_kegg_data", "parse_gene_data"} /\ ret.done

Parser(fn, data) ==
    IF fn = "parse_kegg_data" THEN parse_kegg_data(data) ELSE parse_gene_data(data)

\* the lines of the text and the positions of its terminator lines
LinesOfText == Split(call.data, "\n")

TerminatorLines == {i \in DOMAIN LinesOfText : LinesOfText[i] = <<"/", "/", "/">>}

BeforeTerminator ==
    IF TerminatorLines = {} THEN LinesOfText
    ELSE SubSeq(LinesOfText, 1, Min(TerminatorLines) - 1)

AfterTerminator ==
    IF TerminatorLines = {} THEN <<>>
    ELSE SubSeq(LinesOfText, Min(TerminatorLines) + 1, Len(LinesOfText))

\* the tags and the values that the lines before the terminator carry
TaggedBefore == {l \in Range(BeforeTerminator) : Len(SplitOnce(l, " ")) = 2}

KeysBefore == {Strip(SplitOnce(l, " ")[1]) : l \in TaggedBefore}

ValuesBefore == {Strip(SplitOnce(l, " ")[2]) : l \in TaggedBefore}

\* a text that agrees with the call's text up to the terminator
OtherText ==
    Join(SubSeq(LinesOfText, 1, Min(TerminatorLines)) \o call.other_ending, <<"\n">>)

\* C10: the record a flat-record parser returns depends only on the lines
\* before the first terminator line: every key and every value of the result
\* comes from a line before the terminator, and a text that agrees with the
\* input up to the terminator parses to the same result.
C10_NothingPastTerminator ==
    ParseCallDone =>
       /\ ~ret.raised =>
             \A i \in DOMAIN ret.value :
                /\ ret.value[i].k \in KeysBefore \cup {<<>>}
                /\ Range(ret.value[i].v.items) \subseteq ValuesBefore
       /\ TerminatorLines # {} => ret = Outcome(Parser(call.fn, OtherText))

\* a record returned for a text whose lines after the terminator carry a tag
\* and a value of their own, compared with a text that ends differently
C10_Witness ==
    /\ ParseCallDone /\ ~ret.raised
    /\ ret.value # <<>>
    /\ TerminatorLines # {}
    /\ \E l \in Range(AfterTerminator) :
          /\ Len(SplitOnce(l, " ")) = 2
          /\ Strip(SplitOnce(l, " ")[1]) \notin KeysBefore \cup {<<>>}
          /\ Strip(SplitOnce(l, " ")[2]) \notin ValuesBefore
    /\ call.other_ending # AfterTerminator

\* the lines the loop consumes: those before the first line that starts with ///
ConsumedLines ==
    LET stops == {i \in DOMAIN LinesOfText : StartsWith(LinesOfText[i], <<"/", "/", "/">>)}
    IN  IF stops = {} THEN LinesOfText ELSE SubSeq(LinesOfText, 1, Min(stops) - 1)

\* line i of lines carries a value (it holds a space); its own tag, possibly empty
CarriesValue(lines, i) == Len(SplitOnce(lines[i], " ")) = 2

OwnTag(lines, i) == Strip(SplitOnce(lines[i], " ")[1])

\* the tag the value of line i belongs to: its own, or that of the closest
\* tagged line above a continuation line ("" when there is none)
TagAt(lines, i) ==
    IF OwnTag(lines, i) # <<>> THEN OwnTag(lines, i)
    ELSE LET above == {j \in 1..(i - 1) : CarriesValue(lines, j) /\ OwnTag(lines, j) # <<>>}
         IN  IF above = {} THEN <<>>
             ELSE OwnTag(lines, CHOOSE j \in above : \A m \in above : m <= j)

\* the positions of the lines that give tag a value, in source order
PositionsOf(lines, tag) ==
    SelectSeq([i \in 1..Len(lines) |-> i],
              LAMBDA i : CarriesValue(lines, i) /\ TagAt(lines, i) = tag)

\* the values tag has received, in source order
ValuesOf(lines, tag) ==
    [n \in 1..Len(PositionsOf(lines, tag)) |->
        Strip(SplitOnce(lines[PositionsOf(lines, tag)[n]], " ")[2])]

TagsOf(lines) == {TagAt(lines, i) : i \in {j \in DOMAIN lines : CarriesValue(lines, j)}}

\* the record after the first n consumed lines
RecordAfter(n) == Parser(call.fn, Join(SubSeq(ConsumedLines, 1, n), <<"\n">>))

\* C11: after the parser has consumed a prefix of the lines, a tag that has
\* received one value maps to that string, a tag that has received k >= 2
\* values maps to the list of the k values in source order, a tag whose value
\* was a list after a shorter prefix still maps to a list, and the tags stand
\* in the order of their first appearance.
C11_ScalarThenOrderedList ==
    ParseCallDone /\ ~ret.raised =>
       LET record == ret.value
           keys == [i \in DOMAIN record |-> record[i].k]
       IN  /\ Range(keys) = TagsOf(ConsumedLines)
           /\ \A i \in DOMAIN keys :
                 LET values == ValuesOf(ConsumedLines, keys[i])
                 IN  /\ Len(values) = 1 =>
                           record[i].v = [is_list |-> FALSE, items |-> values]
                     /\ Len(values) >= 2 =>
                           record[i].v = [is_list |-> TRUE, items |-> values]
           /\ \A i, j \in DOMAIN keys :
                 i < j => PositionsOf(ConsumedLines, keys[i])[1]
                             < PositionsOf(ConsumedLines, keys[j])[1]
           /\ \A n \in 1..(Len(ConsumedLines) - 1) :
                 LET earlier == RecordAfter(n)
                 IN  ~earlier.raised =>
                        \A m \in DOMAIN earlier.value :
                           earlier.value[m].v.is_list =>
                              /\ HasKey(record, earlier.value[m].k)
                              /\ Get(record, earlier.value[m].k).is_list

\* a record with two tags, one of them holding a list that a continuation
\* line contributed to
C11_Witness ==
    /\ ParseCallDone /\ ~ret.raised
    /\ Len(ret.value) >= 2
    /\ \E i \in DOMAIN ret.value :
          /\ ret.value[i].v.is_list
          /\ Len(ret.value[i].v.items) >= 2
    /\ \E i \in DOMAIN ConsumedLines :
          CarriesValue(ConsumedLines, i) /\ OwnTag(ConsumedLines, i) = <<>>

----------------------------------------------------------------------------
(* Claims about get_info and get_name *)

GetInfoCallDone == call.fn = "get_info" /\ ret.done

\* the well-formed elements of the sub-list, in order: those with a separator
WellFormed(elements) == SelectSeq(elements, LAMBDA e : Len(SplitOnce(e, " ")) = 2)

IdOf(element) == SplitOnce(element, " ")[1]

DescriptionOf(element) == SplitOnce(element, " ")[2]

DistinctIds(elements) ==
    \A i, j \in DOMAIN elements : IdOf(elements[i]) = IdOf(elements[j]) => i = j

\* C12 as stated: for a sub-list of N well-formed "<id> <description>" lines
\* (a scalar string counts as one line) get_info returns a mapping with exactly
\* N entries, each id mapped to the description of its line; malformed lines
\* are skipped without aborting the field, so the mapping never has more.
C12_OneEntryPerLine ==
    GetInfoCallDone =>
       LET lines == WellFormed(call.sub_list.items)
       IN  /\ ~ret.raised
           /\ Len(ret.value) = Len(lines)
           /\ \A i \in DOMAIN lines :
                 /\ HasKey(ret.value, IdOf(lines[i]))
                 /\ Get(ret.value, IdOf(lines[i])) = DescriptionOf(lines[i])

\* C12, amended: get_info returns one entry per distinct id of the well-formed
\* lines, each id mapped to the description of the last line that carries it;
\* with N well-formed lines of pairwise distinct ids that is exactly N entries,
\* each id mapped to the description of its line.  Malformed lines are skipped
\* without aborting the field and the mapping never has more than N entries.
C12_OneEntryPerDistinctId ==
    GetInfoCallDone =>
       LET lines == WellFormed(call.sub_list.items)
       IN  /\ ~ret.raised
           /\ Keys(ret.value) = {IdOf(lines[i]) : i \in DOMAIN lines}
           /\ Len(ret.value) <= Len(lines)
           /\ DistinctIds(lines) => Len(ret.value) = Len(lines)
           /\ \A i \in DOMAIN lines :
                 (\A j \in DOMAIN lines : IdOf(lines[j]) = IdOf(lines[i]) => j <= i)
                    => Get(ret.value, IdOf(lines[i])) = DescriptionOf(lines[i])

\* a list with a malformed element between two well-formed ones of distinct ids
C12_Witness ==
    /\ GetInfoCallDone /\ ~ret.raised
    /\ call.sub_list.is_list
    /\ Len(call.sub_list.items) = 3
    /\ Len(SplitOnce(call.sub_list.items[2], " ")) = 1
    /\ Len(ret.value) = 2

GetNameCallDone == call.fn \in {"get_name", "InfoBuilder.get_name"} /\ ret.done

\* the sub-list mapping of the NAME lines without the (RefSeq) entries
NameMappingWithoutRefSeq ==
    LET mapping == get_info(Get(call.kegg_info, "NAME")).value
    IN  SelectSeq(mapping, LAMBDA e : e.k # <<"(", "R", "e", "f", "S", "e", "q", ")">>)

\* C13: when the NAME field is extracted for an id, the description stored
\* for the id is the sub-list mapping of the NAME lines with every entry whose
\* short id is (RefSeq) dropped; the other entries are kept and the text of a
\* (RefSeq) entry is not what gets stored.
C13_RefSeqDropped ==
    GetNameCallDone /\ HasKey(call.kegg_info, "NAME") =>
       /\ HasKey(ret.value, call.id)
       /\ HasKey(Get(ret.value, call.id), "description")
       /\ Get(Get(ret.value, call.id), "description")
             = [type |-> "dict", value |-> NameMappingWithoutRefSeq]

----------------------------------------------------------------------------
(* Claims about run_scrape's cache load and its tasks *)

\* the cache file holds no object of entries
CacheUnusable == scrape_json.kind \in {"absent", "empty", "corrupt", "array"}

\* a task was submitted for id kegg_id of file f
Dispatched(f, kegg_id) ==
    \E t \in DOMAIN futures :
       futures[t] = [kegg_id |-> kegg_id, excel_file_name |-> f]

\* C14: whatever the state of the cache file when run_scrape starts (absent,
\* zero bytes, not valid JSON, or valid JSON that is not an object of entries)
\* the cache is treated as empty, run_scrape does not raise, and it goes on to
\* dispatch the requested ids.
C14_UnusableCacheIsEmpty ==
    CacheUnusable /\ main_pc # "get_json" =>
       /\ main_pc # "raised"
       /\ hsa_entries = [type |-> "dict", members |-> <<>>]
       /\ main_pc = "returned" =>
             \A f \in Files : \A kegg_id \in xlsx[f] : Dispatched(f, kegg_id)

\* C15: a task adds an entry for its id to the combined data only when every
\* stage succeeded (a parsed record, a gene symbol, the search and both
\* enrichment sub-pages); a task in which a stage fails ends FAILED, leaves no
\* entry for its id and is not run again in the same run.
C15_EntryOnlyWhenAllStagesSucceed ==
    \A t \in DOMAIN futures :
       /\ task_pc[t] \in {"write", "merged"} => stages[t] = "complete"
       /\ stages[t] \in {"partial", "nothing"} =>
             /\ task_pc[t] = "failed"
             /\ main_pc # "returned" =>
                   ~Returned(futures[t].excel_file_name, futures[t].kegg_id)
             /\ \A u \in DOMAIN futures : futures[u] = futures[t] => u = t

\* a step of the task of future t
TaskStep(t) ==
    \/ Start(t)
    \/ \E outcome \in Outcomes : Fetch(t, outcome)
    \/ CheckGroup(t)
    \/ InitGroup(t)
    \/ WriteEntry(t)

\* a remote call of some task has not answered
SomeCallPending == \E t \in DOMAIN futures : task_pc[t] = "waiting"

\* C16: a failure of one id's task at any stage, an exception raised inside
\* the task included, does not abort the batch: run_scrape does not raise,
\* every other submitted task can still run on to a terminal state, and
\* run_scrape returns only when every task is merged or failed.  (Calls that
\* never answer are the subject of C19.)
C16_FailureIsIsolated ==
    (\E t \in DOMAIN futures : task_pc[t] = "failed") =>
       /\ main_pc # "raised"
       /\ main_pc = "returned" => \A u \in DOMAIN futures : Terminal(task_pc[u])
       /\ \A u \in DOMAIN futures :
             task_pc[u] \in {"fetch", "check", "init", "write"} => ENABLED TaskStep(u)
       /\ (\E u \in DOMAIN futures : task_pc[u] = "queued") =>
             ENABLED (\E u \in DOMAIN futures : Start(u))
       /\ ~SomeCallPending /\ main_pc # "returned" => ENABLED NextScrape

\* a run that returned with one task failed at a stage and another merged
C16_Witness ==
    /\ main_pc = "returned"
    /\ \E t, u \in DOMAIN futures :
          /\ task_pc[t] = "failed" /\ stages[t] = "nothing"
          /\ task_pc[u] = "merged"
          /\ Returned(futures[u].excel_file_name, futures[u].kegg_id)

\* the run of main is over
MainStopped == main_pc \in {"raised", "written"}

\* C17: every run of scrape_info.main started with valid arguments goes
\* through process_files and run_scrape and reaches the step that rewrites
\* scrape.json in full with the combined data; no run stops before that write.
C17_MainReachesFinalWrite ==
    MainStopped =>
       /\ main_pc = "written"
       /\ scrape_json = [kind |-> "object", members |-> combined_data]

----------------------------------------------------------------------------
(* Claims about the worker pools *)

\* C18: at every moment of a run the number of identifier tasks executing
\* concurrently is at most the pool width (5), in run_scrape and in
\* get_kegg_id_multiple, however many ids or symbols are submitted.
C18_AtMostPoolWidthRunning ==
    /\ Cardinality({t \in DOMAIN task_pc : Running(task_pc[t])}) <= max_workers
    /\ Cardinality({u \in DOMAIN row_tasks : row_tasks[u].st = "running"})
          <= fetcher_max_workers

\* six tasks submitted, five of them executing and the sixth waiting for a worker
C18_Witness ==
    /\ Len(futures) = max_workers + 1
    /\ Cardinality({t \in DOMAIN task_pc : Running(task_pc[t])}) = max_workers
    /\ task_pc[max_workers + 1] = "queued"

\* C19: every dispatched identifier task eventually reaches a terminal state
\* (a remote call that never answers times out and the task is marked failed),
\* and the run as a whole terminates.
C19_EveryTaskEndsAndRunTerminates ==
    /\ \A t \in 1..MaxBatch :
          [](t \in DOMAIN task_pc => <>(t \in DOMAIN task_pc /\ Terminal(task_pc[t])))
    /\ <>(main_pc \in {"returned", "raised"})

----------------------------------------------------------------------------
(* Claims about the two parser variants *)

\* " " in line
HasSpace(line) == \E i \in DOMAIN line : line[i] = " "

\* the text with every line that contains no space removed
WithoutNoSpaceLines(data) == Join(SelectSeq(Split(data, "\n"), HasSpace), <<"\n">>)

RECURSIVE UpToTerminator(_)
\* the lines the loop reads: those before the first line that starts with ///
UpToTerminator(lines) ==
    IF lines = <<>> \/ IsTerminator(Head(lines)) THEN <<>>
    ELSE <<Head(lines)>> \o UpToTerminator(Tail(lines))

ScannedLines == UpToTerminator(Split(call.data, "\n"))

KeptLines == SelectSeq(ScannedLines, HasSpace)

NoSpaceLineScanned == \E i \in DOMAIN ScannedLines : ~HasSpace(ScannedLines[i])

StrictRaisesOnNoSpaceLine ==
    (call.fn = "parse_gene_data" /\ ret.done /\ NoSpaceLineScanned) => ret.raised

\* C20 as stated: for every input text the tolerant parser returns exactly what
\* the strict parser returns on the same text with every line that contains no
\* space removed, and on a text that has such a line before the terminator the
\* strict parser raises instead of returning a record.
C20_TolerantIsStrictOnFilteredText ==
    /\ (call.fn = "parse_kegg_data" /\ ret.done) =>
          ret = Outcome(parse_gene_data(WithoutNoSpaceLines(call.data)))
    /\ StrictRaisesOnNoSpaceLine

\* C20 amended: the tolerant parser returns exactly what the strict parser
\* returns on the lines that precede the first line starting with ///, with
\* every line that contains no space removed (the empty record when no line
\* remains); and on a text that has a line with no space before that line the
\* strict parser raises instead of returning a record.
C20_TolerantIsStrictOnScannedLines ==
    /\ (call.fn = "parse_kegg_data" /\ ret.done) =>
          ret = IF KeptLines = <<>> THEN Outcome(Return(<<>>))
                ELSE Outcome(parse_gene_data(Join(KeptLines, <<"\n">>)))
    /\ StrictRaisesOnNoSpaceLine

\* the tolerant parser has skipped a line with no space and returned the
\* record of the other lines it read
C20_Witness ==
    /\ call.fn = "parse_kegg_data" /\ ret.done
    /\ NoSpaceLineScanned
    /\ KeptLines # <<>>
    /\ ret.value # <<>>

----------------------------------------------------------------------------
(* Claims about the merge of concurrent tasks *)

\* every submitted task has ended
PoolDrained == futures # <<>> /\ \A t \in DOMAIN futures : Terminal(task_pc[t])

\* C21: once the pool in run_scrape has drained, every task that reached the
\* merge step still has its entry in combined_data, under any interleaving of
\* the worker tasks, including when two tasks of one group both find the group
\* key missing and both initialise it.
C21_NoMergedResultLost ==
    PoolDrained =>
       \A t \in DOMAIN futures :
          task_pc[t] = "merged" =>
             Returned(futures[t].excel_file_name, futures[t].kegg_id)

----------------------------------------------------------------------------
(* Claims about the ids read from the extended sheets *)

SheetCallDone == call.fn = "get_cell_type_and_ids" /\ ret.done

\* the results that a cell of the sheet holds
ResultsIn(cell) == IF cell = NA THEN {} ELSE Range(Split(cell.value, "/"))

\* the valid ids of the rows in which a protocol returned one
ValidIdsOfRows ==
    UNION {(ResultsIn(call.df[r].KEGG_ID_UNIPROT_HUMAN)
            \cup ResultsIn(call.df[r].KEGG_ID_HUMAN)) \ {NoHit} : r \in DOMAIN call.df}

\* C22: the sentinel "No hit" is never among the ids get_cell_type_and_ids
\* returns for run_scrape to submit, including for rows whose columns hold
\* several '/'-joined results of which some are "No hit"; and a row for which
\* only one of the two protocols returned a valid id still contributes that id.
C22_NoHitNeverDispatched ==
    SheetCallDone =>
       /\ NoHit \notin Range(ret.value)
       /\ ValidIdsOfRows \subseteq Range(ret.value)

====
